---- MODULE Spec2Model ----
(***************************************************************************)
(* A model of the adafruit_gps NMEA pipeline: the byte-stream framer       *)
(* (Gps::read_line), the checksum validator and splitter                   *)
(* (is_valid_checksum, parse_sentence), the dispatcher (Gps::update) and   *)
(* the field decoders of src/src/nmea.rs, and the record file written by   *)
(* GpsSentence::append_to and read back by GpsSentence::read_from.         *)
(*                                                                         *)
(* A Rust &str is modelled as its UTF-8 byte sequence (a sequence of       *)
(* naturals 0..255): len() is the byte length, s[a..b] slices by byte      *)
(* index and panics off a character boundary, exactly as in Rust.          *)
(* A panic is the outcome "panic" / [tag |-> "Panic"].                     *)
(***************************************************************************)
EXTENDS Integers, Sequences, FiniteSets, TLC

VARIABLES
    pc,        \* position of the caller / of update / of a pure-function run
    wire,      \* what the transport will deliver: a sequence of read events
    output,    \* read_line: the accumulation buffer
    late,      \* read_line: start.elapsed() has passed the one-second timeout
    reads,     \* history: the outcome of every read_line call of this update, in order
    gsv,       \* update: the state of the GSV loop (declared count, index, values)
    result,    \* what the last update call returned
    sent,      \* how many items the receiver has put on the wire
    arg,       \* input of a pure-function run
    ret,       \* outcome of a pure-function run
    file       \* the record file of append_to and read_from, absent until written

vars == <<pc, wire, output, late, reads, gsv, result, sent, arg, ret, file>>

None == [tag |-> "None"]
Some(v) == [tag |-> "Some", v |-> v]
Panic == [tag |-> "Panic"]

Min(a, b) == IF a <= b THEN a ELSE b

(***************************************************************************)
(* Bytes and text                                                          *)
(***************************************************************************)

\* The printable ASCII characters in code order, starting at the space (32); the
\* grave accent (96) is spelt GRAVE.
AsciiTable ==
    << " ", "!", "\"", "#", "$", "%", "&", "'", "(", ")", "*", "+", ",", "-", ".", "/",
       "0", "1", "2", "3", "4", "5", "6", "7", "8", "9", ":", ";", "<", "=", ">", "?",
       "@", "A", "B", "C", "D", "E", "F", "G", "H", "I", "J", "K", "L", "M", "N", "O",
       "P", "Q", "R", "S", "T", "U", "V", "W", "X", "Y", "Z", "[", "\\", "]", "^", "_",
       "GRAVE", "a", "b", "c", "d", "e", "f", "g", "h", "i", "j", "k", "l", "m", "n", "o",
       "p", "q", "r", "s", "t", "u", "v", "w", "x", "y", "z", "{", "|", "}", "~" >>

\* The byte of a printable ASCII character.
Ord(c) == 31 + CHOOSE i \in 1..Len(AsciiTable) : AsciiTable[i] = c

\* The bytes of a text written as a tuple of printable ASCII characters.
S(chars) == [i \in 1..Len(chars) |-> Ord(chars[i])]

\* the newline marker `10u8` that ends a line, and the carriage return before it
LF == 10
CR == 13

RECURSIVE Xor8(_, _)
\* a ^ b on u8
Xor8(a, b) ==
    IF a = 0 THEN b
    ELSE IF b = 0 THEN a
    ELSE (((a % 2) + (b % 2)) % 2) + (2 * Xor8(a \div 2, b \div 2))

RECURSIVE XorAll(_)
\* the fold `actual ^= *i` over a byte sequence, from 0
XorAll(bytes) ==
    IF bytes = <<>> THEN 0
    ELSE Xor8(XorAll(SubSeq(bytes, 1, Len(bytes) - 1)), bytes[Len(bytes)])

RECURSIVE Flatten(_)
Flatten(ss) == IF ss = <<>> THEN <<>> ELSE ss[1] \o Flatten(Tail(ss))

\* str::is_char_boundary: i is a 0-based byte index
IsCharBoundary(s, i) ==
    \/ i = 0
    \/ i = Len(s)
    \/ i > 0 /\ i < Len(s) /\ s[i + 1] \notin 128..191

\* &s[a..b] does not panic
SliceOk(s, a, b) ==
    /\ 0 <= a /\ a <= b /\ b <= Len(s)
    /\ IsCharBoundary(s, a) /\ IsCharBoundary(s, b)

\* &s[a..b], 0-based and half-open
Slice(s, a, b) == SubSeq(s, a + 1, b)

IsPrefix(p, s) == Len(p) <= Len(s) /\ SubSeq(s, 1, Len(p)) = p
IsSuffix(p, s) == Len(p) <= Len(s) /\ SubSeq(s, Len(s) - Len(p) + 1, Len(s)) = p

\* The UTF-8 encodings of the characters with the Unicode White_Space property,
\* which str::trim strips.
WhiteSpace ==
    {<<b>> : b \in {9, 10, 11, 12, 13, 32}}
    \cup {<<194, 133>>, <<194, 160>>, <<225, 154, 128>>}
    \cup {<<226, 128, b>> : b \in (128..138) \cup {168, 169, 175}}
    \cup {<<226, 129, 159>>, <<227, 128, 128>>}

RECURSIVE TrimStart(_)
TrimStart(s) ==
    IF \E w \in WhiteSpace : IsPrefix(w, s)
    THEN LET w == CHOOSE w \in WhiteSpace : IsPrefix(w, s)
         IN TrimStart(SubSeq(s, Len(w) + 1, Len(s)))
    ELSE s

RECURSIVE TrimEnd(_)
TrimEnd(s) ==
    IF \E w \in WhiteSpace : IsSuffix(w, s)
    THEN LET w == CHOOSE w \in WhiteSpace : IsSuffix(w, s)
         IN TrimEnd(SubSeq(s, 1, Len(s) - Len(w)))
    ELSE s

\* str::trim
trim(s) == TrimEnd(TrimStart(s))

\* char::to_digit(16)
HexDigitValue(b) ==
    IF b \in Ord("0")..Ord("9") THEN b - Ord("0")
    ELSE IF b \in Ord("A")..Ord("F") THEN b - Ord("A") + 10
    ELSE IF b \in Ord("a")..Ord("f") THEN b - Ord("a") + 10
    ELSE -1

RECURSIVE HexValue(_)
HexValue(digits) ==
    IF digits = <<>> THEN 0
    ELSE 16 * HexValue(SubSeq(digits, 1, Len(digits) - 1)) + HexDigitValue(digits[Len(digits)])

\* a value past u8::MAX is an overflow error
radix_value(v) == IF v > 255 THEN [tag |-> "Err"] ELSE [tag |-> "Ok", v |-> v]

\* u8::from_str_radix(src, 16) on the digits left after an optional leading '+'
radix_digits(src, digits) ==
    IF src = <<>> \/ src = <<Ord("+")>> \/ src = <<Ord("-")>> THEN [tag |-> "Err"]
    ELSE IF digits = <<>> \/ \E i \in 1..Len(digits) : HexDigitValue(digits[i]) < 0
         THEN [tag |-> "Err"]
    ELSE radix_value(HexValue(digits))

\* u8::from_str_radix(src, 16): an optional leading '+', then hex digits of
\* either case; [tag |-> "Ok", v |-> value] or [tag |-> "Err"].
u8_from_str_radix(src) ==
    radix_digits(src, IF src # <<>> /\ src[1] = Ord("+") THEN Tail(src) ELSE src)

(***************************************************************************)
(* Checksum validator and splitter                                         *)
(***************************************************************************)

\* A faulty variant of checksum_verdict, which folds the leading '$' into the XOR
\* as well; C1 tells it from the code.
checksum_verdict_with_dollar(star, expected_checksum, body) ==
    IF star # <<Ord("*")>> THEN "false"
    ELSE IF expected_checksum.tag = "Err" THEN "false"
    ELSE IF XorAll(body) = expected_checksum.v THEN "true"
    ELSE "false"

\* is_valid_checksum, lines 54-70: the star, the parsed checksum and the XOR of
\* body[1..]
checksum_verdict(star, expected_checksum, body) ==
    IF star # <<Ord("*")>> THEN "false"
    ELSE IF expected_checksum.tag = "Err" THEN "false"
    ELSE IF ~SliceOk(body, 1, Len(body)) THEN "panic"
    ELSE IF XorAll(Slice(body, 1, Len(body))) = expected_checksum.v THEN "true"
    ELSE "false"

\* is_valid_checksum, lines 50-52: the three slices of the trimmed sentence;
\* s.len() - 3 underflows, or a slice is off a character boundary: a panic
checksum_slices(s, n) ==
    IF n < 3 \/ ~SliceOk(s, n - 3, n - 2) \/ ~SliceOk(s, n - 2, n) \/ ~SliceOk(s, 0, n - 3)
    THEN "panic"
    ELSE checksum_verdict(Slice(s, n - 3, n - 2),
                          u8_from_str_radix(Slice(s, n - 2, n)),
                          Slice(s, 0, n - 3))

\* is_valid_checksum on the trimmed sentence
checksum_trimmed(s) == checksum_slices(s, Len(s))

\* is_valid_checksum: "true", "false" or "panic"
is_valid_checksum(s) == checksum_trimmed(trim(s))

RECURSIVE Split(_, _)
\* str::split(sep): the tokens between separators, empty tokens kept
Split(s, sep) ==
    IF \E i \in 1..Len(s) : s[i] = sep
    THEN LET i == CHOOSE i \in 1..Len(s) : s[i] = sep /\ \A j \in 1..(i - 1) : s[j] # sep
         IN <<SubSeq(s, 1, i - 1)>> \o Split(SubSeq(s, i + 1, Len(s)), sep)
    ELSE <<s>>

\* parse_sentence, lines 90-95: the fields when the checksum is valid
split_if_valid(valid, sentence) ==
    IF valid = "panic" THEN Panic
    ELSE IF valid = "true" THEN Some(Split(Slice(sentence, 0, Len(sentence) - 3), Ord(",")))
    ELSE None

\* parse_sentence on the trimmed sentence
parse_trimmed(sentence) ==
    IF Len(sentence) < 6 THEN None
    ELSE split_if_valid(is_valid_checksum(sentence), sentence)

\* parse_sentence: Some(fields), None, or a panic of is_valid_checksum
parse_sentence(sentence) == parse_trimmed(trim(sentence))

\* The two hex digits of a byte, upper case or lower case.
HexDigits(upper) ==
    IF upper THEN S(<<"0","1","2","3","4","5","6","7","8","9","A","B","C","D","E","F">>)
    ELSE S(<<"0","1","2","3","4","5","6","7","8","9","a","b","c","d","e","f">>)

Hex(x, upper) == <<HexDigits(upper)[(x \div 16) + 1], HexDigits(upper)[(x % 16) + 1]>>

\* "$" + b + "*" + hh, hh the XOR of the bytes of b
Framed(b, upper) == S(<<"$">>) \o b \o S(<<"*">>) \o Hex(XorAll(b), upper)

(***************************************************************************)
(* Numerals: str::parse::<i32>(), str::parse::<f32>(), str::parse::<f64>() *)
(***************************************************************************)

IsDigit(b) == b \in Ord("0")..Ord("9")
AllDigits(s) == \A i \in 1..Len(s) : IsDigit(s[i])
Lower(s) == [i \in 1..Len(s) |-> IF s[i] \in Ord("A")..Ord("Z") THEN s[i] + 32 ELSE s[i]]

RECURSIVE DigitsValue(_)
DigitsValue(ds) ==
    IF ds = <<>> THEN 0
    ELSE 10 * DigitsValue(SubSeq(ds, 1, Len(ds) - 1)) + (ds[Len(ds)] - Ord("0"))

RECURSIVE Pow10(_)
Pow10(n) == IF n <= 0 THEN 1 ELSE 10 * Pow10(n - 1)

RECURSIVE StripZeros(_)
StripZeros(ds) == IF ds # <<>> /\ ds[1] = Ord("0") THEN StripZeros(Tail(ds)) ELSE ds

Ok(v) == [tag |-> "Ok", v |-> v]
Err == [tag |-> "Err"]
IsSign(b) == b = Ord("+") \/ b = Ord("-")
Unsigned(t) == IF t # <<>> /\ IsSign(t[1]) THEN Tail(t) ELSE t
IsNegative(t) == t # <<>> /\ t[1] = Ord("-")
Signed(neg, n) == IF neg THEN 0 - n ELSE n

\* the value of significant digits ds within the i32 range, or an overflow
i32_value(neg, ds, high) ==
    IF Len(ds) <= 9 THEN Ok(Signed(neg, high))
    ELSE IF Len(ds) = 10 /\ (high < 214748364 \/ (high = 214748364 /\ ds[10] <= Ord("7")))
         THEN Ok(Signed(neg, high * 10 + (ds[10] - Ord("0"))))
    ELSE IF Len(ds) = 10 /\ neg /\ high = 214748364 /\ ds[10] = Ord("8")
         THEN Ok((0 - 2147483647) - 1)
    ELSE Err

i32_digits(neg, all, ds) ==
    IF all = <<>> \/ ~AllDigits(all) THEN Err
    ELSE i32_value(neg, ds, DigitsValue(SubSeq(ds, 1, Min(9, Len(ds)))))

i32_unsigned(neg, all) == i32_digits(neg, all, StripZeros(all))

\* str::parse::<i32>(): an optional sign, one or more digits, within the i32 range
ParseI32(t) == i32_unsigned(IsNegative(t), Unsigned(t))

\* An f64 is kept as a record: a finite value in millionths (micro), truncated
\* toward zero, while its magnitude is below 1000; "other" is a finite value of
\* magnitude 1000 or more, which the model does not keep; "inf" keeps its sign
\* in micro.
Fin(micro) == [kind |-> "fin", micro |-> micro]
NaN == [kind |-> "nan", micro |-> 0]
Inf(neg) == [kind |-> "inf", micro |-> Signed(neg, 1)]
Other == [kind |-> "other", micro |-> 0]

\* The two float formats: a numeral rounds to infinity when it has more whole
\* digits than `digits`, or as many and its first nine digits from `lead` upward
\* (f32::MAX is 3.40282347e38, f64::MAX is 1.7976931348623157e308).
F32 == [digits |-> 39, lead |-> 340282357, bits |-> 32]
F64 == [digits |-> 309, lead |-> 179769314, bits |-> 64]

\* the first nine digits of ds, zeros added to the right of a shorter ds
Lead9(ds) == DigitsValue(SubSeq(ds \o S(<<"0","0","0","0","0","0","0","0">>), 1, 9))

RECURSIVE Pow2(_)
Pow2(n) == IF n <= 0 THEN 1 ELSE 2 * Pow2(n - 1)

\* An f32 is kept bit for bit: a finite value is m / 2^e with its sign in neg, m
\* below 2^24 and, unless the value is zero, from 2^23 upward (the 24-bit
\* significand). "other" is a finite value the model does not compute: one whose
\* numeral has more than nine significant digits or decimal places. Subnormal
\* values do not arise from numerals within that range.
Bin(neg, m, e) == [kind |-> "fin", neg |-> neg, m |-> m, e |-> e]
Zero32(neg) == Bin(neg, 0, 0)
NaN32 == [kind |-> "nan", neg |-> FALSE, m |-> 0, e |-> 0]
Inf32(neg) == [kind |-> "inf", neg |-> neg, m |-> 0, e |-> 0]
Other32 == [kind |-> "other", neg |-> FALSE, m |-> 0, e |-> 0]

\* round to nearest, ties to even: m has 25 bits, the lowest is the rounding bit,
\* sticky says that the exact value lies above m / 2^e
f32_rounded(neg, m, e) ==
    IF m = Pow2(24) THEN Bin(neg, Pow2(23), e - 1) ELSE Bin(neg, m, e)
f32_round(neg, m, e, sticky) ==
    f32_rounded(neg,
                (m \div 2) + (IF m % 2 = 1 /\ (sticky \/ (m \div 2) % 2 = 1) THEN 1 ELSE 0),
                e - 1)

RECURSIVE f32_norm(_, _, _, _, _, _)
\* The f32 nearest to (m + rem / den) / 2^e, where 0 <= rem < den: the
\* significand is brought to 25 bits, by halving, or by doubling with the next
\* bit of rem / den, and is then rounded.
f32_norm(neg, m, rem, den, e, sticky) ==
    IF m = 0 /\ rem = 0 THEN Zero32(neg)
    ELSE IF m >= Pow2(25)
         THEN f32_norm(neg, m \div 2, rem, den, e - 1, sticky \/ m % 2 = 1)
    ELSE IF m < Pow2(24)
         THEN f32_norm(neg, 2 * m + (IF 2 * rem >= den THEN 1 ELSE 0),
                       IF 2 * rem >= den THEN 2 * rem - den ELSE 2 * rem, den, e + 1, sticky)
    ELSE f32_round(neg, m, e, sticky \/ rem # 0)

\* the f32 nearest to n / den, for n and den below 2^30
f32_ratio(neg, n, den) == f32_norm(neg, n \div den, n % den, den, 0, FALSE)

\* the f32 nearest to the numeral of significant digits ds with k decimal places
f32_decimal(neg, ds, k) ==
    IF Len(ds) > 9 \/ k > 9 \/ Len(ds) - k > 9 THEN Other32
    ELSE IF k >= 0 THEN f32_ratio(neg, DigitsValue(ds), Pow10(k))
    ELSE f32_ratio(neg, DigitsValue(ds) * Pow10(0 - k), 1)

\* str::parse::<f32>() of the significant digits ds with k decimal places
f32_value(neg, ds, k) ==
    IF ds = <<>> THEN Zero32(neg)
    ELSE IF Len(ds) - k > F32.digits \/ (Len(ds) - k = F32.digits /\ Lead9(ds) >= F32.lead)
         THEN Inf32(neg)
    ELSE f32_decimal(neg, ds, k)

\* the exponent after e or E: an optional sign and one or more digits; an exponent
\* of more than four digits is as good as 10000
exp_digits(neg, ds) ==
    Ok(Signed(neg, IF Len(ds) > 4 THEN 10000 ELSE DigitsValue(ds)))
exp_value(neg, ds) ==
    IF ds = <<>> \/ ~AllDigits(ds) THEN Err ELSE exp_digits(neg, StripZeros(ds))
ParseExp(has_exp, expo) == IF has_exp THEN exp_value(IsNegative(expo), Unsigned(expo)) ELSE Ok(0)

\* the value of significant digits ds whose value in millionths has n digits
float_value(neg, ds, n, fmt) ==
    IF fmt.bits = 32 THEN f32_value(neg, ds, (6 + Len(ds)) - n)
    ELSE IF ds = <<>> \/ n <= 0 THEN Fin(0)
    ELSE IF n - 6 > fmt.digits \/ (n - 6 = fmt.digits /\ Lead9(ds) >= fmt.lead) THEN Inf(neg)
    ELSE IF n > 9 THEN Other
    ELSE IF n >= Len(ds) THEN Fin(Signed(neg, DigitsValue(ds) * Pow10(n - Len(ds))))
    ELSE Fin(Signed(neg, DigitsValue(SubSeq(ds, 1, n))))

\* the digits ds times 10^p are the value in millionths
float_digits(neg, ds, p, fmt) == float_value(neg, ds, Len(ds) + p, fmt)

\* digits, at most one point, at least one digit
float_parts(neg, nparts, int, frac, e, fmt) ==
    IF nparts > 2 \/ ~AllDigits(int \o frac) \/ int \o frac = <<>> \/ e.tag = "Err" THEN Err
    ELSE Ok(float_digits(neg, StripZeros(int \o frac), (6 - Len(frac)) + e.v, fmt))

float_mantissa(neg, parts, e, fmt) ==
    float_parts(neg, Len(parts), parts[1], IF Len(parts) > 1 THEN parts[2] ELSE <<>>, e, fmt)

\* the place of the first e or E of u, Len(u) + 1 when there is none
FirstE(u) ==
    IF \E i \in 1..Len(u) : u[i] \in {Ord("e"), Ord("E")}
    THEN CHOOSE i \in 1..Len(u) :
            /\ u[i] \in {Ord("e"), Ord("E")}
            /\ \A j \in 1..(i - 1) : u[j] \notin {Ord("e"), Ord("E")}
    ELSE Len(u) + 1

float_number(neg, u, e1, fmt) ==
    float_mantissa(neg, Split(SubSeq(u, 1, e1 - 1), Ord(".")),
                   ParseExp(e1 <= Len(u), SubSeq(u, e1 + 1, Len(u))), fmt)

float_unsigned(neg, u, lower, fmt) ==
    IF lower = S(<<"n", "a", "n">>) THEN Ok(IF fmt.bits = 32 THEN NaN32 ELSE NaN)
    ELSE IF lower \in {S(<<"i", "n", "f">>), S(<<"i", "n", "f", "i", "n", "i", "t", "y">>)}
         THEN Ok(IF fmt.bits = 32 THEN Inf32(neg) ELSE Inf(neg))
    ELSE float_number(neg, u, FirstE(u), fmt)

float_signed(neg, u, fmt) == float_unsigned(neg, u, Lower(u), fmt)

\* str::parse::<f32>() and ::<f64>(): an optional sign, then digits with at most one
\* point and at least one digit, then an optional exponent; or inf, infinity, nan in
\* any letter case.
ParseAs(fmt, t) == float_signed(IsNegative(t), Unsigned(t), fmt)

\* str::parse::<f32>()
ParseFloat(t) == ParseAs(F32, t)

\* str::parse::<f64>()
ParseF64(t) == ParseAs(F64, t)

\* Result::ok()
OkOf(r) == IF r.tag = "Ok" THEN Some(r.v) ELSE None

\* `.parse::<f32>().ok()`: the lenient reading of an optional numeral
ParseOk(t) == OkOf(ParseFloat(t))

\* `.parse::<i32>().ok()`
ParseI32Ok(t) == OkOf(ParseI32(t))

\* value * -1.0 on an f32: the sign bit is turned
Negated(v) == IF v.kind \in {"fin", "inf"} THEN [v EXCEPT !.neg = ~v.neg] ELSE v

\* a / 60.0 on f32
f32_div60(a) ==
    IF a.kind = "fin" THEN f32_norm(a.neg, a.m \div 60, a.m % 60, 60, a.e, FALSE) ELSE a

\* m * 8 / 2^d with the bits that fall off gathered into the lowest bit
f32_aligned(m8, d) ==
    IF d > 27 THEN 1
    ELSE (m8 \div Pow2(d)) + (IF m8 % Pow2(d) # 0 /\ (m8 \div Pow2(d)) % 2 = 0 THEN 1 ELSE 0)

\* the f32 nearest to s / 2^e
f32_signed(s, e) ==
    IF s = 0 THEN Zero32(FALSE) ELSE f32_norm(s < 0, IF s < 0 THEN 0 - s ELSE s, 0, 1, e, FALSE)

\* hi + lo for finite values other than zero, hi.e <= lo.e: both are brought to
\* the unit 2^-(hi.e + 3), three bits below the larger operand's last bit
f32_add_aligned(hi, lo) ==
    f32_signed(Signed(hi.neg, hi.m * 8) + Signed(lo.neg, f32_aligned(lo.m * 8, lo.e - hi.e)),
               hi.e + 3)

f32_add_finite(a, b) ==
    IF a.m = 0 /\ b.m = 0 THEN Zero32(a.neg /\ b.neg)
    ELSE IF a.m = 0 THEN b
    ELSE IF b.m = 0 THEN a
    ELSE IF a.e <= b.e THEN f32_add_aligned(a, b)
    ELSE f32_add_aligned(b, a)

\* a + b on f32
f32_add(a, b) ==
    IF a.kind = "fin" /\ b.kind = "fin" THEN f32_add_finite(a, b)
    ELSE IF "nan" \in {a.kind, b.kind} THEN NaN32
    ELSE IF a.kind = "inf" /\ b.kind = "inf" /\ a.neg # b.neg THEN NaN32
    ELSE IF a.kind = "inf" THEN a
    ELSE IF b.kind = "inf" THEN b
    ELSE Other32

\* h / 2, rounded to the nearest integer, ties to even; sticky says that the exact
\* value lies above h / 2
HalfEven(h, sticky) ==
    (h \div 2) + (IF h % 2 = 1 /\ (sticky \/ (h \div 2) % 2 = 1) THEN 1 ELSE 0)

\* (hi * 2^12 + a0) / 2^s rounded to the nearest integer, ties to even
micros_shifted(hi, a0, s) ==
    IF s > 39 THEN 0
    ELSE IF s >= 13
         THEN HalfEven(hi \div Pow2(s - 13), a0 # 0 \/ hi % Pow2(s - 13) # 0)
    ELSE HalfEven(hi * Pow2(13 - s) + (a0 \div Pow2(s - 1)), a0 % Pow2(s - 1) # 0)

\* m * 5^6 in two parts, the lower of 12 bits
micros_product(hi, lo, s) == micros_shifted(hi + (lo \div 4096), lo % 4096, s)

\* m * 10^6 / 2^e rounded to the nearest integer: the millionths that
\* format!("{:.6}", r) prints for r = m / 2^e below 512
Micros(m, e) == micros_product((m \div 4096) * 15625, (m % 4096) * 15625, e - 6)

\* format!("{:.6}", r).parse::<f32>(): a value from 512 upward comes back as it
\* is, the f32 values there lying more than a millionth apart
f32_round6(r) ==
    IF r.kind # "fin" \/ r.e <= 14 THEN r
    ELSE f32_ratio(r.neg, Micros(r.m, r.e), 1000000)

\* deg + minutes / 60.0, rounded to 6 decimal places by format!("{:.6}")
DegreesValue(deg, minutes) == f32_round6(f32_add(deg, f32_div60(minutes)))

\* A faulty variant of degrees_signed, which negates for no hemisphere; C10 tells
\* it from the code.
degrees_signed_unsigned(r, compass_direction) ==
    IF compass_direction \in {<<Ord("N")>>, <<Ord("E")>>, <<Ord("S")>>, <<Ord("W")>>}
    THEN Some(r)
    ELSE Panic

\* _parse_degrees, lines 62-68: the sign of the hemisphere letter
degrees_signed(r, compass_direction) ==
    IF compass_direction = <<Ord("N")>> \/ compass_direction = <<Ord("E")>> THEN Some(r)
    ELSE IF compass_direction = <<Ord("S")>> \/ compass_direction = <<Ord("W")>>
         THEN Some(Negated(r))
    ELSE Panic

\* _parse_degrees, lines 59-60: both parts parsed (each unwrap a panic)
degrees_sum(deg_min, compass_direction) ==
    IF deg_min[1].tag = "Err" \/ deg_min[2].tag = "Err" THEN Panic
    ELSE degrees_signed(DegreesValue(deg_min[1].v, deg_min[2].v), compass_direction)

\* _parse_degrees, lines 51-57: degrees[0..k] and degrees[k..], k the end of the
\* whole degrees
degrees_split(degrees, k, compass_direction) ==
    IF ~SliceOk(degrees, 0, k) \/ ~SliceOk(degrees, k, Len(degrees)) THEN Panic
    ELSE degrees_sum([h \in 1..2 |-> ParseFloat(IF h = 1 THEN Slice(degrees, 0, k)
                                                ELSE Slice(degrees, k, Len(degrees)))],
                     compass_direction)

\* _parse_degrees with the first three bytes taken as whole degrees whatever the
\* length of the integer part
parse_degrees_first_three(degrees, compass_direction) ==
    IF degrees = <<>> THEN None ELSE degrees_split(degrees, 3, compass_direction)

\* _parse_degrees: None, Some(value) or a panic
_parse_degrees(degrees, compass_direction) ==
    IF degrees = <<>> THEN None
    ELSE degrees_split(degrees,
                       IF Len(Split(degrees, Ord("."))[1]) = 4 THEN 2 ELSE 3,
                       compass_direction)

(***************************************************************************)
(* Field decoders. args is the field sequence, header first; Get(args, i)  *)
(* is args.get(i).unwrap(), asked for only where Has(args, i).             *)
(***************************************************************************)

Has(args, i) == i < Len(args)
Get(args, i) == args[i + 1]
\* args.get(i).unwrap_or(&d)
GetOr(args, i, d) == IF Has(args, i) THEN args[i + 1] ELSE d

\* &header[a..b] == code, the slice not panicking
HeaderIs(header, a, b, code) == SliceOk(header, a, b) /\ Slice(header, a, b) = code

GG == S(<<"G","G">>)
GSA == S(<<"G","S","A">>)
GSV == S(<<"G","S","V">>)
GLL == S(<<"G","L","L">>)
RMC == S(<<"R","M","C">>)
VTG == S(<<"V","T","G">>)

\* the fields at the places `at`, each read leniently
Lenient(args, at) == [i \in at |-> ParseOk(Get(args, i))]

\* the coordinates whose numerals are at the places `at`, each followed by its
\* hemisphere letter
Coordinates(args, at) == [i \in at |-> _parse_degrees(Get(args, i), Get(args, i + 1))]

gga_record(args, header_ok, utc, pos, satellites_used, opt) ==
    IF \/ ~header_ok
       \/ utc.tag = "Err"
       \/ pos[2].tag = "Panic" \/ pos[4].tag = "Panic"
       \/ satellites_used.tag = "Err"
    THEN Panic
    ELSE [tag |-> "GGA",
          utc |-> utc.v,
          lat |-> pos[2],
          long |-> pos[4],
          sat_fix |-> IF Get(args, 6) = <<Ord("1")>> THEN "GpsFix"
                      ELSE IF Get(args, 6) = <<Ord("2")>> THEN "DgpsFix"
                      ELSE "NoFix",
          satellites_used |-> satellites_used.v,
          hdop |-> opt[8],
          msl_alt |-> opt[9],
          geoidal_sep |-> opt[11],
          age_diff_corr |-> opt[13]]

\* parse_gga: a GGA record or a panic
parse_gga(args) ==
    IF ~Has(args, 13) THEN Panic
    ELSE gga_record(args, HeaderIs(Get(args, 0), 3, 5, GG), ParseF64(Get(args, 1)),
                    Coordinates(args, {2, 4}), ParseI32(Get(args, 7)),
                    Lenient(args, {8, 9, 11, 13}))

\* a GSA record whose mode defaults to Automatic
gsa_record_default_automatic(args, opt) ==
    [tag |-> "GSA",
     mode |-> IF Get(args, 1) = <<Ord("M")>> THEN "Manual" ELSE "Automatic",
     dimension_fix |-> IF Get(args, 2) = <<Ord("2")>> THEN "Dimension2d"
                       ELSE IF Get(args, 2) = <<Ord("3")>> THEN "Dimension3d"
                       ELSE "NotAvailable",
     sats |-> [i \in 1..12 |-> ParseI32Ok(Get(args, i + 2))],
     pdop |-> opt[15],
     hdop |-> opt[16],
     vdop |-> opt[17]]

gsa_record(args, opt) ==
    [tag |-> "GSA",
     mode |-> IF Get(args, 1) = <<Ord("A")>> THEN "Automatic" ELSE "Manual",
     dimension_fix |-> IF Get(args, 2) = <<Ord("2")>> THEN "Dimension2d"
                       ELSE IF Get(args, 2) = <<Ord("3")>> THEN "Dimension3d"
                       ELSE "NotAvailable",
     sats |-> [i \in 1..12 |-> ParseI32Ok(Get(args, i + 2))],
     pdop |-> opt[15],
     hdop |-> opt[16],
     vdop |-> opt[17]]

\* parse_gsa: a GSA record or a panic
parse_gsa(args) ==
    IF ~Has(args, 17) \/ ~HeaderIs(Get(args, 0), 3, 6, GSA) THEN Panic
    ELSE gsa_record(args, Lenient(args, {15, 16, 17}))

sat_record(id, opt) == [id |-> id, elevation |-> opt[1], azimuth |-> opt[2], snr |-> opt[3]]

\* parse_sat: one satellite entry from a group of four fields
parse_sat(args) == sat_record(ParseI32Ok(Get(args, 0)), Lenient(args, {1, 2, 3}))

\* parse_gsv: [tag |-> "Ok", v |-> the satellite entries] or a panic. args.get(4..8),
\* (8..12), (12..16), (16..20) are Some exactly when the whole range is there.
parse_gsv(args) ==
    IF ~Has(args, 0) \/ ~HeaderIs(Get(args, 0), 3, 6, GSV)
    THEN Panic
    ELSE [tag |-> "Ok",
          v |-> [k \in 1..Min(4, IF Len(args) < 4 THEN 0 ELSE (Len(args) - 4) \div 4)
                   |-> parse_sat(SubSeq(args, 4 * k + 1, 4 * k + 4))]]

\* parse_rmc, lines 435-439: the magnetic variation, its direction letter at 12
mag_var_of(letter, value) ==
    IF letter = <<Ord("E")>> THEN OkOf(value)
    ELSE IF letter = <<Ord("W")>>
         THEN IF value.tag = "Err" THEN Panic ELSE Some(Negated(value.v))
    ELSE None

rmc_record(args, utc, pos, opt, mag_var) ==
    IF pos[3].tag = "Panic" \/ pos[5].tag = "Panic" \/ mag_var.tag = "Panic"
    THEN Panic
    ELSE [tag |-> "RMC",
          utc |-> IF utc.tag = "Ok" THEN utc.v ELSE Fin(0),
          fix_status |-> GetOr(args, 2, <<Ord("V")>>) = <<Ord("A")>>,
          latitude |-> pos[3],
          longitude |-> pos[5],
          speed |-> opt[7],
          course |-> opt[8],
          date |-> GetOr(args, 9, <<>>),
          mag_var |-> mag_var]

\* the fields 1 (an f64) and 11 (an f32) of an RMC sentence as numerals (11 only
\* where it is there)
rmc_numerals(args) ==
    [i \in {1, 11} |-> ParseAs(IF i = 1 THEN F64 ELSE F32, GetOr(args, i, <<>>))]

rmc_parsed(args, num) ==
    rmc_record(args, num[1], Coordinates(args, {3, 5}), Lenient(args, {7, 8}),
               mag_var_of(GetOr(args, 12, <<>>), num[11]))

\* parse_rmc: an RMC record or a panic; the header is not looked at
parse_rmc(args) ==
    IF ~Has(args, 8) THEN Panic
    ELSE rmc_parsed(args, rmc_numerals(args))

vtg_record(mode, opt) ==
    [tag |-> "VTG",
     true_course |-> opt[1],
     magnetic_course |-> opt[3],
     speed_knots |-> opt[5],
     speed_kph |-> opt[7],
     mode |-> IF mode = <<Ord("A")>> THEN "Autonomous"
              ELSE IF mode = <<Ord("D")>> THEN "Differential"
              ELSE IF mode = <<Ord("E")>> THEN "Estimated"
              ELSE "Unknown"]

\* parse_vtg: a VTG record or a panic; the header is not looked at
parse_vtg(args) ==
    IF ~Has(args, 7) THEN Panic
    ELSE vtg_record(GetOr(args, 9, <<Ord("N")>>), Lenient(args, {1, 3, 5, 7}))

gll_record(args, pos, utc) ==
    IF pos[1].tag = "Panic" \/ pos[3].tag = "Panic"
    THEN Panic
    ELSE [tag |-> "GLL",
          latitude |-> pos[1],
          longitude |-> pos[3],
          utc |-> utc,
          is_valid |-> GetOr(args, 6, <<>>) = <<Ord("A")>>]

\* parse_gll: a GLL record or a panic; the header is not looked at
parse_gll(args) ==
    IF ~Has(args, 4) THEN Panic
    ELSE gll_record(args, Coordinates(args, {1, 3}), OkOf(ParseF64(GetOr(args, 5, <<Ord("0")>>))))

(***************************************************************************)
(* The framer Gps::read_line and the dispatcher Gps::update                *)
(***************************************************************************)

\* how many continuation bytes follow the first byte b of a character, -1 when b
\* cannot start one
Utf8Width(b) ==
    IF b < 128 THEN 0
    ELSE IF b \in 194..223 THEN 1
    ELSE IF b \in 224..239 THEN 2
    ELSE IF b \in 240..244 THEN 3
    ELSE -1

\* the range of the byte after the first byte b
Utf8Second(b) ==
    IF b = 224 THEN 160..191
    ELSE IF b = 237 THEN 128..159
    ELSE IF b = 240 THEN 144..191
    ELSE IF b = 244 THEN 128..143
    ELSE 128..191

\* the character starting at i is well formed: w continuation bytes follow it and
\* the byte after them starts the next character
Utf8CharAt(s, i, w) ==
    /\ w >= 0
    /\ i + w <= Len(s)
    /\ \A k \in 1..w : s[i + k] \in (IF k = 1 THEN Utf8Second(s[i]) ELSE 128..191)
    /\ i + w < Len(s) => s[i + w + 1] \notin 128..191

\* str::from_utf8(&output).is_ok()
Utf8Valid(s) ==
    /\ s # <<>> => s[1] \notin 128..191
    /\ \A i \in 1..Len(s) : s[i] \notin 128..191 => Utf8CharAt(s, i, Utf8Width(s[i]))

NoConnection == [tag |-> "NoConnection"]
InvalidBytes == [tag |-> "InvalidBytes"]
InvalidSentence == [tag |-> "InvalidSentence"]

\* the end of read_line, after the loop: the buffer as text, or as raw bytes
line_of(out) ==
    IF Utf8Valid(out) THEN [tag |-> "Valid", s |-> out]
    ELSE [tag |-> "InvalidBytes", s |-> out]

\* the loop leaves after a read of `out`: the last byte is the newline marker, or
\* the buffer holds more than 255 bytes
MaxOutput == 255

\* a loop that leaves one byte later
line_ends_late(out) == out[Len(out)] = LF \/ Len(out) > MaxOutput + 1

line_ends(out) == out[Len(out)] = LF \/ Len(out) > MaxOutput

NoGsv == [number_of_messages |-> 0, message |-> 0, values |-> <<>>]

\* What update does next: return r, panic, or go on with the GSV loop in state g.
Return(r) == [pc |-> "returned", result |-> r, gsv |-> NoGsv]
Abort == [pc |-> "panicked", result |-> Panic, gsv |-> NoGsv]
Decoded(r) == IF r.tag = "Panic" THEN Abort ELSE Return(r)

\* the `for _message in 1..number_of_messages` loop, before the read of round
\* g.message: another read_line, or the return of the collected values
gsv_loop(g) ==
    IF g.message < g.number_of_messages
    THEN [pc |-> "read_next", result |-> [tag |-> "Pending"], gsv |-> g]
    ELSE Return([tag |-> "GSV", v |-> g.values])

\* update, lines 176-179: the declared count and the first sentence's entries
gsv_first(sentence, number_of_messages) ==
    IF number_of_messages.tag = "Err" THEN Abort
    ELSE gsv_loop([number_of_messages |-> number_of_messages.v,
                   message |-> 1,
                   values |-> parse_gsv(sentence).v])

\* update, lines 164-189: the decoder the header selects
dispatch(sentence, header) ==
    IF ~SliceOk(header, 3, 5) THEN Abort
    ELSE IF Slice(header, 3, 5) = GG THEN Decoded(parse_gga(sentence))
    ELSE IF ~SliceOk(header, 3, 6) THEN Abort
    ELSE IF Slice(header, 3, 6) = VTG THEN Decoded(parse_vtg(sentence))
    ELSE IF Slice(header, 3, 6) = GSA THEN Decoded(parse_gsa(sentence))
    ELSE IF Slice(header, 3, 6) = GLL THEN Decoded(parse_gll(sentence))
    ELSE IF Slice(header, 3, 6) = RMC THEN Decoded(parse_rmc(sentence))
    ELSE IF Slice(header, 3, 6) = GSV
         THEN IF ~Has(sentence, 1) THEN Abort
              ELSE gsv_first(sentence, ParseI32(Get(sentence, 1)))
    ELSE Return(InvalidSentence)

\* update, lines 159-191: the parsed first sentence
update_parsed(sentence) ==
    IF sentence.tag = "Panic" THEN Abort
    ELSE IF sentence.tag = "None" THEN Return(InvalidSentence)
    ELSE dispatch(sentence.v, Get(sentence.v, 0))

\* update, from the first read_line's return to the next read_line or the end
update_first(port_output) ==
    IF port_output.tag = "NoConnection" THEN Return(NoConnection)
    ELSE IF port_output.tag = "InvalidBytes" THEN Return(InvalidBytes)
    ELSE update_parsed(parse_sentence(port_output.s))

\* A faulty variant of gsv_append, which puts the entries of a continuation
\* sentence before those gathered so far; C5 tells it from the code.
gsv_append_in_front(g, more) ==
    IF more.tag = "Panic" THEN Abort
    ELSE gsv_loop([g EXCEPT !.message = g.message + 1, !.values = more.v \o g.values])

\* update, line 185: the entries of a continuation sentence are appended
gsv_append(g, more) ==
    IF more.tag = "Panic" THEN Abort
    ELSE gsv_loop([g EXCEPT !.message = g.message + 1, !.values = g.values \o more.v])

\* update, lines 183-185: parse_sentence(..).unwrap(), then parse_gsv
gsv_next(g, sentence) ==
    IF sentence.tag # "Some" THEN Abort
    ELSE gsv_append(g, parse_gsv(sentence.v))

\* update, lines 181-186: after a continuation read_line of the GSV loop; a
\* line that is not Valid is passed over
update_next(line, g) ==
    IF line.tag # "Valid" THEN gsv_loop([g EXCEPT !.message = g.message + 1])
    ELSE gsv_next(g, parse_sentence(line.s))

\* what update does on the return of a read_line
update_on(first, port_output, g) ==
    IF first THEN update_first(port_output) ELSE update_next(port_output, g)

\* read_line has returned port_output and update has run on to `next`
Resume(port_output, next) ==
    /\ pc' = next.pc
    /\ result' = next.result
    /\ gsv' = next.gsv
    /\ reads' = Append(reads, port_output)
    /\ output' = <<>>
    /\ late' = FALSE

\* what runs on the return of a read_line: the caller, when it called read_line
\* itself, and update otherwise
after_read_line(at, port_output, g) ==
    IF at = "read_line" THEN Return(port_output)
    ELSE update_on(at = "read_first", port_output, g)

\* read_line returns port_output to its caller, which runs on to its next read or
\* end
ReadLineReturns(port_output) ==
    Resume(port_output, after_read_line(pc, port_output, gsv))

Reading == pc \in {"read_line", "read_first", "read_next"}

\* What the next port.read gives: the head of the wire, or a timeout of the port
\* (Duration::from_millis(1000)) on a quiet wire.
Quiet == [ev |-> "timeout", b |-> 0]
NextEvent == IF wire = <<>> THEN Quiet ELSE Head(wire)
Consumed == IF wire = <<>> THEN <<>> ELSE Tail(wire)

\* the caller calls gps.update(): read_line starts with an empty buffer
CallUpdate ==
    /\ pc \in {"idle", "returned"}
    /\ pc' = "read_first"
    /\ output' = <<>>
    /\ late' = FALSE
    /\ reads' = <<>>
    /\ gsv' = NoGsv
    /\ result' = [tag |-> "Pending"]
    /\ UNCHANGED <<wire, sent, arg, ret, file>>

\* read_line, an iteration that finds start.elapsed() > 1 s: NoConnection
ReadTimedOut ==
    /\ Reading /\ late
    /\ ReadLineReturns(NoConnection)
    /\ UNCHANGED <<wire, sent, arg, ret, file>>

\* read_line, lines 132-136: the buffer after extend_from_slice
ReadAppended(out) ==
    IF line_ends(out)
    THEN ReadLineReturns(line_of(out))
    ELSE /\ output' = out
         /\ late' = (NextEvent.ev = "slow")
         /\ UNCHANGED <<pc, reads, gsv, result>>

\* read_line, an iteration whose read gives one byte (Ok(1)); after a slow byte the
\* second has passed
ReadByte ==
    /\ Reading /\ ~late
    /\ NextEvent.ev \in {"byte", "slow"}
    /\ wire' = Consumed
    /\ ReadAppended(Append(output, NextEvent.b))
    /\ UNCHANGED <<sent, arg, ret, file>>

\* read_line, an iteration whose read gives Ok(0): output.len() - 1 underflows on
\* an empty buffer and the unwrap panics; otherwise the loop goes on
ReadZero ==
    /\ Reading /\ ~late
    /\ NextEvent.ev = "zero"
    /\ wire' = Consumed
    /\ IF output = <<>>
       THEN /\ pc' = "panicked"
            /\ result' = Panic
            /\ reads' = Append(reads, Panic)
            /\ UNCHANGED <<output, late, gsv>>
       ELSE UNCHANGED <<pc, result, output, late, reads, gsv>>
    /\ UNCHANGED <<sent, arg, ret, file>>

\* read_line, an iteration whose read gives Err: nothing is appended. A timeout of
\* the port takes the whole second; another error returns at once.
ReadErr ==
    /\ Reading /\ ~late
    /\ NextEvent.ev \in {"timeout", "error"}
    /\ wire' = Consumed
    /\ late' = (NextEvent.ev = "timeout")
    /\ UNCHANGED <<pc, result, output, reads, gsv, sent, arg, ret, file>>

(***************************************************************************)
(* The receiver: what it may put on the wire                               *)
(***************************************************************************)

\* part 1 of 3, four satellite entries
GsvBody1of3 ==
    S(<<"G","P","G","S","V",",","3",",","1",",","1","0",",","1",",",",",",",",","2",",",",",
        ",",",","3",",",",",",",",","4",",",",",",">>)

\* part 2 of 3, four satellite entries
GsvBody2of3 ==
    S(<<"G","P","G","S","V",",","3",",","2",",","1","0",",","5",",",",",",",",","6",",",",",
        ",",",","7",",",",",",",",","8",",",",",",">>)

\* part 3 of 3, two satellite entries
GsvBody3of3 ==
    S(<<"G","P","G","S","V",",","3",",","3",",","1","0",",","9",",","5",",","6",",","7",",",
        "1","0",",",",",",">>)

\* a report of one part with no satellite in view
GsvBody1of1 ==
    S(<<"G","P","G","S","V",",","1",",","1",",","0","0">>)

\* part 1 of 2, one satellite entry
GsvBody1of2 ==
    S(<<"G","L","G","S","V",",","2",",","1",",","5",",","1","1",",","1",",","2",",","3">>)

\* a GGA sentence without a position
GgaBody ==
    S(<<"G","P","G","G","A",",","1",",",",",",",",",",","2",",","4",",",",",",","M",",",",",
        "M",",">>)

\* an RMC sentence without a position
RmcBody ==
    S(<<"G","P","R","M","C",",","1",",","A",",",",",",",",",",",",">>)

\* a VTG sentence of empty fields
VtgBody ==
    S(<<"G","P","V","T","G",",",",",",",",",",",",",",">>)

\* a GLL sentence without a position
GllBody ==
    S(<<"G","P","G","L","L",",",",",",",",",",","1",",","A">>)

\* a GSA sentence with one satellite
GsaBody ==
    S(<<"G","P","G","S","A",",","A",",","3",",","1",",",",",",",",",",",",",",",",",",",",",
        ",",",",",",",">>)

\* a sentence type the dispatcher does not know
PmtkBody ==
    S(<<"P","M","T","K","0","1",",","0">>)

\* a sentence whose header token is three bytes long
ShortBody ==
    S(<<"G","P",",","1">>)

\* a VTG sentence whose XOR is below 16
PlusBody ==
    S(<<"G","P","V","T","G",",","p",",",",",",",",",",",",">>)

\* "$" + body + "*" + checksum + "\r\n" as the reads of its bytes
Bytes(text) == [i \in 1..Len(text) |-> [ev |-> "byte", b |-> text[i]]]
Line(body) == Bytes(Framed(body, TRUE) \o <<CR, LF>>)

\* a sentence with the checksum of another body
WrongSum(body, other) ==
    Bytes(S(<<"$">>) \o body \o S(<<"*">>) \o Hex(XorAll(other), TRUE) \o <<CR, LF>>)

\* a sentence whose checksum is written "+h", a sign and one hex digit
PlusSum(body) ==
    Bytes(S(<<"$">>) \o body \o S(<<"*", "+">>) \o <<Hex(XorAll(body), TRUE)[2]>> \o <<CR, LF>>)

\* a line whose third byte from the end is inside the two-byte character U+00E9
OffBoundary == Bytes(S(<<"$", "G", "P", "G", "G">>) \o <<195, 169>> \o S(<<"0", "0">>) \o <<CR, LF>>)

\* a line that is not UTF-8
NotText == Bytes(<<255, LF>>)

\* the start of a sentence, its bytes arriving slowly and no newline after it
Partial == <<[ev |-> "byte", b |-> Ord("$")], [ev |-> "slow", b |-> Ord("G")]>>

\* the first sentence of a report of five, with four satellite entries, all empty
GsvBody1of5 ==
    S(<<"G","P","G","S","V",",","5",",","1",",","2","0",",",",",",",",",",",",",",",",",
        ",",",",",",",",",",",",",",",",",",",">>)

\* a report of five sentences of four entries each, sent in one go
ReportOf5 ==
    Line(GsvBody1of5) \o Line(GsvBody1of5) \o Line(GsvBody1of5) \o Line(GsvBody1of5)
        \o Line(GsvBody1of5)

\* The items the receiver may send, one at a time.
Items ==
    {Line(GsvBody1of3), Line(GsvBody2of3), Line(GsvBody3of3), Line(GsvBody1of1),
     Line(GsvBody1of2), Line(GgaBody), Line(RmcBody), Line(VtgBody), Line(GllBody),
     Line(GsaBody), Line(PmtkBody), Line(ShortBody),
     WrongSum(GsvBody2of3, GsvBody3of3), PlusSum(PlusBody), OffBoundary, NotText, Partial,
     ReportOf5,
     <<[ev |-> "timeout", b |-> 0]>>, <<[ev |-> "zero", b |-> 0]>>,
     <<[ev |-> "error", b |-> 0]>>}

\* how many items the receiver sends in a run
MaxItems == 4

\* the receiver sends its next item once the previous one has been read
Transmit ==
    /\ wire = <<>>
    /\ sent < MaxItems
    /\ pc \in {"idle", "returned", "read_first", "read_next"}
    /\ \E item \in Items : wire' = item
    /\ sent' = sent + 1
    /\ UNCHANGED <<pc, output, late, reads, gsv, result, arg, ret, file>>

Init ==
    /\ pc = "idle"
    /\ wire = <<>>
    /\ output = <<>>
    /\ late = FALSE
    /\ reads = <<>>
    /\ gsv = NoGsv
    /\ result = [tag |-> "Pending"]
    /\ sent = 0 /\ file = None
    /\ arg = <<>>
    /\ ret = <<>>

Next ==
    \/ Transmit
    \/ CallUpdate
    \/ ReadTimedOut
    \/ ReadByte
    \/ ReadZero
    \/ ReadErr

Spec == Init /\ [][Next]_vars

\* ---- read_line called by itself

\* the caller calls gps.read_line(): the loop starts with an empty buffer
CallReadLine ==
    /\ pc \in {"idle", "returned"}
    /\ pc' = "read_line"
    /\ output' = <<>>
    /\ late' = FALSE
    /\ reads' = <<>>
    /\ result' = [tag |-> "Pending"]
    /\ UNCHANGED <<wire, gsv, sent, arg, ret, file>>

\* how many bytes a stream without a newline holds
RunawayLen == 300

\* a stream that never sends a newline
Runaway == Bytes([i \in 1..RunawayLen |-> Ord("A")])

\* a byte, then a read that gives no byte
ByteThenZero == <<[ev |-> "byte", b |-> Ord("$")], [ev |-> "zero", b |-> 0]>>

\* what the port may deliver to read_line: lines, bytes that are not text, the
\* start of a line, a stream without a newline, reads that give nothing
Streams ==
    {Line(ShortBody), Line(PmtkBody), NotText, Partial, Runaway, ByteThenZero,
     <<[ev |-> "timeout", b |-> 0]>>, <<[ev |-> "zero", b |-> 0]>>,
     <<[ev |-> "error", b |-> 0]>>}

\* the port receives its next stream once the previous one has been read
Receive ==
    /\ wire = <<>>
    /\ sent < MaxItems
    /\ pc \in {"idle", "returned", "read_line"}
    /\ \E item \in Streams : wire' = item
    /\ sent' = sent + 1
    /\ UNCHANGED <<pc, output, late, reads, gsv, result, arg, ret, file>>

NextReadLine ==
    \/ Receive
    \/ CallReadLine
    \/ ReadTimedOut
    \/ ReadByte
    \/ ReadZero
    \/ ReadErr

\* a step of read_line's loop
ReadLineStep == ReadTimedOut \/ ReadByte \/ ReadZero \/ ReadErr

SpecReadLine == Init /\ [][NextReadLine]_vars

\* The runs in which every port.read of a pending read_line returns and the loop
\* goes on: p.read blocks for at most the port's timeout (open_port sets it to
\* 1000 ms), and nothing else runs between two iterations.
SpecReadLineLive == SpecReadLine /\ WF_vars(ReadLineStep)

(***************************************************************************)
(* The validator on its own: is_valid_checksum applied to framed sentences *)
(* and to framed sentences with one character of the body changed          *)
(***************************************************************************)

\* The characters a body is drawn from, each as its UTF-8 bytes; the last is
\* U+0080, two bytes.
BodyChars == {S(<<"A">>), S(<<"B">>), S(<<",">>), S(<<"1">>), <<194, 128>>}

\* the longest body, in characters
MaxBody == 3

Bodies == UNION {[1..n -> BodyChars] : n \in 0..MaxBody}

\* the sentence with the checksum of body `b` after the body `changed`
Sentence(changed, b, upper) ==
    S(<<"$">>) \o Flatten(changed) \o S(<<"*">>) \o Hex(XorAll(Flatten(b)), upper)

\* is_valid_checksum("$" + b + "*" + hh), hh in upper or lower case
ValidateFramed ==
    /\ pc = "checksum"
    /\ \E upper \in BOOLEAN :
          ret' = [op |-> "framed", at |-> 0, to |-> <<>>,
                  verdict |-> is_valid_checksum(Sentence(arg, arg, upper))]
    /\ UNCHANGED <<pc, wire, output, late, reads, gsv, result, sent, arg, file>>

\* is_valid_checksum of the framed sentence with the character at `at` changed to
\* another one and hh left as it was
ValidateChanged ==
    /\ pc = "checksum"
    /\ \E at \in 1..Len(arg) : \E to \in BodyChars \ {arg[at]} :
          ret' = [op |-> "changed", at |-> at, to |-> to,
                  verdict |-> is_valid_checksum(Sentence([arg EXCEPT ![at] = to], arg, TRUE))]
    /\ UNCHANGED <<pc, wire, output, late, reads, gsv, result, sent, arg, file>>

InitChecksum ==
    /\ pc = "checksum"
    /\ arg \in Bodies
    /\ ret = [op |-> "none", at |-> 0, to |-> <<>>, verdict |-> "none"]
    /\ wire = <<>> /\ output = <<>> /\ late = FALSE /\ reads = <<>>
    /\ gsv = NoGsv /\ result = [tag |-> "Pending"] /\ sent = 0 /\ file = None

NextChecksum == ValidateFramed \/ ValidateChanged

SpecChecksum == InitChecksum /\ [][NextChecksum]_vars

\* ---- parse_sentence applied to lines of text

\* what may stand before and after a sentence on its line
Paddings == {<<>>, <<CR, LF>>, S(<<" ">>)}

\* what parse_sentence gives for a line
Parsed(line) == [op |-> "parse_sentence", line |-> line, out |-> parse_sentence(line)]

\* parse_sentence of the framed body, hh in upper or lower case, the line padded
ParseFramed ==
    /\ pc = "sentence"
    /\ \E upper \in BOOLEAN : \E before \in Paddings : \E after \in Paddings :
          ret' = Parsed(before \o Sentence(arg, arg, upper) \o after)
    /\ UNCHANGED <<pc, wire, output, late, reads, gsv, result, sent, arg, file>>

\* parse_sentence of the body followed by "*+h", h the XOR of the body, which is
\* below 16
ParseSigned ==
    /\ pc = "sentence"
    /\ XorAll(Flatten(arg)) < 16
    /\ ret' = Parsed(S(<<"$">>) \o Flatten(arg) \o S(<<"*", "+">>)
                        \o <<Hex(XorAll(Flatten(arg)), TRUE)[2]>>)
    /\ UNCHANGED <<pc, wire, output, late, reads, gsv, result, sent, arg, file>>

\* parse_sentence of the framed body with one character changed and hh left as it
\* was
ParseChanged ==
    /\ pc = "sentence"
    /\ \E at \in 1..Len(arg) : \E to \in BodyChars \ {arg[at]} :
          ret' = Parsed(Sentence([arg EXCEPT ![at] = to], arg, TRUE))
    /\ UNCHANGED <<pc, wire, output, late, reads, gsv, result, sent, arg, file>>

InitSentence ==
    /\ pc = "sentence"
    /\ arg \in Bodies
    /\ ret = [op |-> "none", line |-> <<>>, out |-> None]
    /\ wire = <<>> /\ output = <<>> /\ late = FALSE /\ reads = <<>>
    /\ gsv = NoGsv /\ result = [tag |-> "Pending"] /\ sent = 0 /\ file = None

NextSentence == ParseFramed \/ ParseSigned \/ ParseChanged

SpecSentence == InitSentence /\ [][NextSentence]_vars

(***************************************************************************)
(* The decoders on their own: each applied to a field sequence             *)
(***************************************************************************)

\* the fields of "$" + body, as parse_sentence splits them
Fields(body) == Split(S(<<"$">>) \o body, Ord(","))

\* an RMC sentence with a magnetic variation to the west
RmcFullBody ==
    S(<<"G","P","R","M","C",",","1",",","A",",",",",",",",",",","2",",","3",",",
        "0","1","0","2","0","3",",",",","4",",","W">>)

\* a GGA sentence with a position
GgaFullBody ==
    S(<<"G","P","G","G","A",",","1",",","1","0","2","0",".","5",",","N",",",
        "1","1","0","2","0",".","5",",","W",",","1",",","4",",","1",".","5",",","9",",","M",",",
        "8",",","M",",","7">>)

\* what a single field may be replaced by: nothing, a letter, a numeral, and the
\* values the enumerations are read from
FieldValues ==
    {<<>>, S(<<"x">>), S(<<"7">>), S(<<"0">>), S(<<"1">>), S(<<"2">>), S(<<"3">>),
     S(<<"M">>), S(<<"A">>)}

BaseFields ==
    {Fields(GgaBody), Fields(GgaFullBody), Fields(GsaBody), Fields(GsvBody3of3),
     Fields(RmcBody), Fields(RmcFullBody), Fields(VtgBody), Fields(GllBody)}

\* the field sequences the decoders are applied to: the base ones, and each with
\* one field after the header replaced
DecoderInputs ==
    BaseFields \cup
    UNION {{[a EXCEPT ![i] = v] : i \in 2..Len(a), v \in FieldValues} : a \in BaseFields}

Decoding == pc = "decode"
Idle == UNCHANGED <<pc, wire, output, late, reads, gsv, result, sent, arg, file>>

DecodeGga == Decoding /\ ret' = [op |-> "parse_gga", out |-> parse_gga(arg)] /\ Idle
DecodeGsa == Decoding /\ ret' = [op |-> "parse_gsa", out |-> parse_gsa(arg)] /\ Idle
DecodeGsv == Decoding /\ ret' = [op |-> "parse_gsv", out |-> parse_gsv(arg)] /\ Idle
DecodeRmc == Decoding /\ ret' = [op |-> "parse_rmc", out |-> parse_rmc(arg)] /\ Idle
DecodeVtg == Decoding /\ ret' = [op |-> "parse_vtg", out |-> parse_vtg(arg)] /\ Idle
DecodeGll == Decoding /\ ret' = [op |-> "parse_gll", out |-> parse_gll(arg)] /\ Idle

InitDecode ==
    /\ pc = "decode"
    /\ arg \in DecoderInputs
    /\ ret = [op |-> "none", out |-> None]
    /\ wire = <<>> /\ output = <<>> /\ late = FALSE /\ reads = <<>>
    /\ gsv = NoGsv /\ result = [tag |-> "Pending"] /\ sent = 0 /\ file = None

NextDecode ==
    \/ DecodeGga
    \/ DecodeGsa
    \/ DecodeGsv
    \/ DecodeRmc
    \/ DecodeVtg
    \/ DecodeGll

SpecDecode == InitDecode /\ [][NextDecode]_vars

(***************************************************************************)
(* The coordinate conversion on its own                                    *)
(***************************************************************************)

\* whole parts and fractions a coordinate numeral is put together from
WholeParts ==
    {<<>>, S(<<"1","2">>), S(<<"1","2","3">>), S(<<"1","0","2","0">>),
     S(<<"1","1","0","2","0">>), S(<<"0","0","0","0">>), S(<<"1","x","3","4">>),
     S(<<"4","5","3","0">>), S(<<"1","7","9","5","9">>),
     S(<<"i","n","f","i","n","f">>), <<195, 169, 50, 51>>}
Fractions ==
    {<<>>, S(<<".">>), S(<<".","5">>), S(<<".","1","2","3","4","5">>), S(<<".","x">>)}
CoordinateNumerals ==
    {w \o f : w \in WholeParts, f \in Fractions} \cup {S(<<"-","3","3","0",".","0">>)}

\* hemisphere fields
Hemispheres ==
    {S(<<"N">>), S(<<"E">>), S(<<"S">>), S(<<"W">>), S(<<"X">>), S(<<"n">>), <<>>,
     S(<<"N","E">>)}

ParseDegrees ==
    /\ pc = "degrees"
    /\ ret' = [op |-> "_parse_degrees",
               out |-> _parse_degrees(arg.degrees, arg.compass_direction)]
    /\ Idle

InitDegrees ==
    /\ pc = "degrees"
    /\ arg \in [degrees : CoordinateNumerals, compass_direction : Hemispheres]
    /\ ret = [op |-> "none", out |-> None]
    /\ wire = <<>> /\ output = <<>> /\ late = FALSE /\ reads = <<>>
    /\ gsv = NoGsv /\ result = [tag |-> "Pending"] /\ sent = 0 /\ file = None

NextDegrees == ParseDegrees

SpecDegrees == InitDegrees /\ [][NextDegrees]_vars

\* ---- the record file: GpsSentence::append_to and GpsSentence::read_from
\*
\* A GpsSentence is [variant, fields]: the index of its variant in the enum and
\* the values of its fields in the order of their declaration. A number (f32,
\* f64, i32) is its little-endian bytes, an Option is None or Some(bytes), an
\* enum its variant index, a String its bytes; the fields of GSV are those of its
\* Satellites one after the other. bincode writes the variant index as a u32,
\* a length as a u64, an Option as a tag byte and its value, a bool as one byte,
\* every number at its fixed width.

FixT(w) == [k |-> "fix", n |-> w]
OptT(w) == [k |-> "opt", n |-> w]
EnumT(n) == [k |-> "enum", n |-> n]
BoolT == [k |-> "bool", n |-> 1]
StrT == [k |-> "str", n |-> 0]

Repeat(x, n) == [i \in 1..n |-> x]

\* the fields of GgaData, VtgData, GsaData, GllData, RmcData
GgaType ==
    <<FixT(8), OptT(4), OptT(4), EnumT(3), FixT(4), OptT(4), OptT(4), OptT(4), OptT(4)>>
VtgType == Repeat(OptT(4), 4) \o <<EnumT(4)>>
GsaType == <<EnumT(2), EnumT(3)>> \o Repeat(OptT(4), 15)
GllType == <<OptT(4), OptT(4), OptT(8), BoolT>>
RmcType == <<FixT(8), BoolT, OptT(4), OptT(4), OptT(4), OptT(4), StrT, OptT(4)>>

\* the variants of GpsSentence, from 0
VariantGGA == 0
VariantVTG == 1
VariantGSA == 2
VariantGSV == 3
VariantGLL == 4
VariantRMC == 5
VariantNoConnection == 6
VariantInvalidBytes == 7
VariantInvalidSentence == 8

\* the field types of a variant, `sats` the number of Satellites of a GSV
TypesOf(variant, sats) ==
    IF variant = VariantGGA THEN GgaType
    ELSE IF variant = VariantVTG THEN VtgType
    ELSE IF variant = VariantGSA THEN GsaType
    ELSE IF variant = VariantGSV THEN Repeat(OptT(4), 4 * sats)
    ELSE IF variant = VariantGLL THEN GllType
    ELSE IF variant = VariantRMC THEN RmcType
    ELSE <<>>

U32(n) == <<n % 256, (n \div 256) % 256, (n \div 65536) % 256, n \div 16777216>>
U64(n) == U32(n) \o <<0, 0, 0, 0>>

serialize_value(t, v) ==
    IF t.k = "fix" THEN v
    ELSE IF t.k = "opt" THEN (IF v.tag = "None" THEN <<0>> ELSE <<1>> \o v.v)
    ELSE IF t.k = "enum" THEN U32(v)
    ELSE IF t.k = "bool" THEN <<IF v THEN 1 ELSE 0>>
    ELSE U64(Len(v)) \o v

serialize_fields(types, fields) ==
    Flatten([i \in 1..Len(types) |-> serialize_value(types[i], fields[i])])

\* bincode::serialize(&self)
serialize(s) ==
    U32(s.variant)
        \o (IF s.variant = VariantGSV THEN U64(Len(s.fields) \div 4) ELSE <<>>)
        \o serialize_fields(TypesOf(s.variant, Len(s.fields) \div 4), s.fields)

\* the unsigned number of w bytes at pos, or 16777216 for any number from there
\* upward
NumberAt(bytes, pos, w) ==
    IF \E i \in (pos + 3)..(pos + w - 1) : bytes[i] # 0 THEN 16777216
    ELSE bytes[pos] + 256 * bytes[pos + 1] + 65536 * bytes[pos + 2]

\* a value read and the place of the next one
Taken(v, next) == [tag |-> "Ok", v |-> v, next |-> next]

take_fix(bytes, pos, w) ==
    IF pos + w - 1 > Len(bytes) THEN Err
    ELSE Taken(SubSeq(bytes, pos, pos + w - 1), pos + w)

take_some(r) == IF r.tag = "Err" THEN Err ELSE Taken(Some(r.v), r.next)

take_opt(bytes, pos, w) ==
    IF pos > Len(bytes) THEN Err
    ELSE IF bytes[pos] = 0 THEN Taken(None, pos + 1)
    ELSE IF bytes[pos] = 1 THEN take_some(take_fix(bytes, pos + 1, w))
    ELSE Err

take_enum(bytes, pos, n) ==
    IF pos + 3 > Len(bytes) THEN Err
    ELSE IF NumberAt(bytes, pos, 4) >= n THEN Err
    ELSE Taken(bytes[pos], pos + 4)

take_bool(bytes, pos) ==
    IF pos > Len(bytes) THEN Err
    ELSE IF bytes[pos] > 1 THEN Err
    ELSE Taken(bytes[pos] = 1, pos + 1)

take_text(text, next) == IF Utf8Valid(text) THEN Taken(text, next) ELSE Err

take_str_of(bytes, pos, len) ==
    IF pos + 7 + len > Len(bytes) THEN Err
    ELSE take_text(SubSeq(bytes, pos + 8, pos + 7 + len), pos + 8 + len)

take_str(bytes, pos) ==
    IF pos + 7 > Len(bytes) THEN Err ELSE take_str_of(bytes, pos, NumberAt(bytes, pos, 8))

take_value(bytes, pos, t) ==
    IF t.k = "fix" THEN take_fix(bytes, pos, t.n)
    ELSE IF t.k = "opt" THEN take_opt(bytes, pos, t.n)
    ELSE IF t.k = "enum" THEN take_enum(bytes, pos, t.n)
    ELSE IF t.k = "bool" THEN take_bool(bytes, pos)
    ELSE take_str(bytes, pos)

RECURSIVE take_fields(_, _, _, _)
take_next(bytes, types, acc, r) ==
    IF r.tag = "Err" THEN Err ELSE take_fields(bytes, r.next, types, Append(acc, r.v))

\* the fields of the types given, read one after the other from pos; what
\* follows the last one is not looked at
take_fields(bytes, pos, types, acc) ==
    IF types = <<>> THEN Ok(acc)
    ELSE take_next(bytes, Tail(types), acc, take_value(bytes, pos, Head(types)))

sentence_of(variant, fields) ==
    IF fields.tag = "Err" THEN Err ELSE Ok([variant |-> variant, fields |-> fields.v])

\* a Vec<Satellites>: the length, then so many Satellites
deserialize_vec(item, sats) ==
    IF 4 * sats > Len(item) - 12 THEN Err
    ELSE sentence_of(VariantGSV, take_fields(item, 13, TypesOf(VariantGSV, sats), <<>>))

deserialize_variant(item, variant) ==
    IF variant > VariantInvalidSentence THEN Err
    ELSE IF variant # VariantGSV
         THEN sentence_of(variant, take_fields(item, 5, TypesOf(variant, 0), <<>>))
    ELSE IF Len(item) < 12 THEN Err
    ELSE deserialize_vec(item, NumberAt(item, 5, 8))

\* bincode::deserialize(item): Ok(sentence) or Err
deserialize(item) ==
    IF Len(item) < 4 THEN Err ELSE deserialize_variant(item, NumberAt(item, 1, 4))

struct_vec_push(t, rest) == IF t.tag = "Ok" THEN <<t.v>> \o rest ELSE rest

RECURSIVE struct_vec(_)
\* read_from, lines 209-213: the items that deserialize, in their order
struct_vec(split) ==
    IF split = <<>> THEN <<>>
    ELSE struct_vec_push(deserialize(Head(split)), struct_vec(Tail(split)))

\* read_from: the records of the file, or a panic when there is no file
read_from(f) == IF f.tag = "None" THEN Panic ELSE Ok(struct_vec(Split(f.v, LF)))

\* append_to: the file with the encoding of the record and a newline at its end
append_to(s, f) ==
    Some((IF f.tag = "None" THEN <<>> ELSE f.v) \o serialize(s) \o <<LF>>)

\* the GGA record of test_read_write: utc 100.0, lat 51.55465, long -0.05632,
\* DgpsFix, 4 satellites, hdop 1.453, msl_alt 42.53, geoidal_sep 47.0, no age
SENTENCE ==
    [variant |-> VariantGGA,
     fields |-> <<(<<0, 0, 0, 0, 0, 0, 89, 64>>), Some(<<246, 55, 78, 66>>),
                  Some(<<205, 175, 102, 189>>), 2, U32(4), Some(<<231, 251, 185, 63>>),
                  Some(<<184, 30, 42, 66>>), Some(<<0, 0, 60, 66>>), None>>]

\* a GSA record, Automatic and Dimension3d, with one satellite id
GsaOf(id) ==
    [variant |-> VariantGSA, fields |-> <<1, 2, Some(U32(id))>> \o Repeat(None, 14)]

\* a GSV record of one satellite, a GLL, a VTG and an RMC record with no position,
\* the RMC one dated 010203
Records ==
    {SENTENCE,
     [SENTENCE EXCEPT !.fields[5] = U32(10)],
     GsaOf(7), GsaOf(10),
     [variant |-> VariantGSV, fields |-> <<Some(U32(4)), None, None, None>>],
     [variant |-> VariantGLL, fields |-> <<None, None, Some(<<0, 0, 0, 0, 0, 0, 240, 63>>), TRUE>>],
     [variant |-> VariantVTG, fields |-> <<None, None, None, None, 3>>],
     [variant |-> VariantRMC,
      fields |-> <<(<<0, 0, 0, 0, 0, 0, 240, 63>>), TRUE, None, None, None, None,
                   S(<<"0","1","0","2","0","3">>), None>>],
     [variant |-> VariantNoConnection, fields |-> <<>>],
     [variant |-> VariantInvalidSentence, fields |-> <<>>]}

\* how many records are appended in a run
MaxRecords == 2

AppendTo ==
    /\ pc = "file"
    /\ Len(arg) < MaxRecords
    /\ \E s \in Records :
          /\ file' = append_to(s, file)
          /\ arg' = Append(arg, s)
    /\ ret' = [op |-> "append_to", out |-> None]
    /\ UNCHANGED <<pc, wire, output, late, reads, gsv, result, sent>>

ReadFrom ==
    /\ pc = "file"
    /\ ret' = [op |-> "read_from", out |-> read_from(file)]
    /\ UNCHANGED <<pc, wire, output, late, reads, gsv, result, sent, arg, file>>

InitFile ==
    /\ pc = "file"
    /\ arg = <<>>
    /\ ret = [op |-> "none", out |-> None]
    /\ wire = <<>> /\ output = <<>> /\ late = FALSE /\ reads = <<>>
    /\ gsv = NoGsv /\ result = [tag |-> "Pending"] /\ sent = 0 /\ file = None

NextFile == AppendTo \/ ReadFrom

SpecFile == InitFile /\ [][NextFile]_vars

(***************************************************************************)
(* What the claims speak of                                                *)
(***************************************************************************)

\* -- C1 as stated: is_valid_checksum accepts every framed sentence and rejects
\* it once any single character of the body is changed and hh is left unchanged.
C1_AnyChangeRejected ==
    /\ ret.op = "framed" => ret.verdict = "true"
    /\ ret.op = "changed" => ret.verdict = "false"

\* -- C1, amended: is_valid_checksum accepts every framed sentence; with one
\* character of the body changed and hh left unchanged it rejects the sentence
\* exactly when the XOR of the new character's bytes differs from the XOR of the
\* old character's bytes, which is so whenever both are single bytes.
C1_ChangeRejectedByXor ==
    /\ ret.op = "framed" => ret.verdict = "true"
    /\ ret.op = "changed" =>
          /\ ret.verdict = "false" <=> XorAll(ret.to) # XorAll(arg[ret.at])
          /\ Len(ret.to) = 1 /\ Len(arg[ret.at]) = 1 => ret.verdict = "false"
          /\ ret.verdict # "panic"

\* a body of three characters had its middle one changed for another single byte
\* and was rejected
C1_Witness ==
    /\ ret.op = "changed" /\ ret.verdict = "false"
    /\ Len(arg) = 3 /\ ret.at = 2
    /\ Len(ret.to) = 1 /\ Len(arg[2]) = 1

RECURSIVE CharsOf(_)
\* the characters of a text, each as its UTF-8 bytes
CharsOf(s) ==
    IF s = <<>> THEN <<>>
    ELSE LET n == IF s[1] < 192 THEN 1 ELSE IF s[1] < 224 THEN 2 ELSE IF s[1] < 240 THEN 3 ELSE 4
         IN <<SubSeq(s, 1, Min(n, Len(s)))>> \o CharsOf(SubSeq(s, Min(n, Len(s)) + 1, Len(s)))

IsHexChar(c) == Len(c) = 1 /\ HexDigitValue(c[1]) >= 0

\* A line fails validation: its trimmed text is under 6 characters long, or its
\* third character from the end is not '*', or its last two characters are not both
\* hexadecimal digits, or they are not the XOR of the bytes between '$' and '*'.
FailsValidation(line) ==
    LET cs == CharsOf(trim(line))
        n == Len(cs)
    IN \/ n < 6
       \/ cs[n - 2] # <<Ord("*")>>
       \/ ~IsHexChar(cs[n - 1]) \/ ~IsHexChar(cs[n])
       \/ XorAll(Flatten(SubSeq(cs, 2, n - 3))) # 16 * HexDigitValue(cs[n - 1][1]) + HexDigitValue(cs[n][1])

\* the update in hand (or just ended) has read a first line of text
FirstLineRead == reads # <<>> /\ reads[1].tag = "Valid"

\* -- C2: a first line that fails validation makes update return the
\* InvalidSentence sentinel, with no fatal fault.
C2_InvalidLineIsSentinel ==
    FirstLineRead /\ FailsValidation(reads[1].s)
        => pc = "returned" /\ result = InvalidSentence

\* the header token carries one of the type codes at its characters 4-6
KnownCode(header) ==
    \/ Len(header) >= 5 /\ SubSeq(header, 4, 5) = GG
    \/ Len(header) >= 6 /\ SubSeq(header, 4, 6) \in {GSA, GSV, GLL, RMC, VTG}

\* the fields of a line that passes validation
FieldsOf(line) == parse_sentence(line).v
Validated(po) == po.tag = "Valid" /\ parse_sentence(po.s).tag = "Some"

\* -- C3: a checksum-valid first line whose header token, of any length, carries
\* none of the modelled type codes makes update return InvalidSentence, no fault.
C3_UnknownHeaderIsSentinel ==
    reads # <<>> /\ Validated(reads[1]) /\ ~KnownCode(FieldsOf(reads[1].s)[1])
        => pc = "returned" /\ result = InvalidSentence

\* -- C4: while the transport has delivered no byte to the first read_line of an
\* update (its reads gave zero bytes or errors), no fault occurs, and when
\* that read_line ends in NoConnection update returns the NoConnection sentinel.
C4_NoBytesIsNoConnection ==
    /\ ~(pc = "panicked" /\ reads = <<Panic>> /\ output = <<>>)
    /\ (pc = "returned" /\ reads = <<NoConnection>> => result = NoConnection)

\* a line that is a valid GSV sentence
IsGsvLine(po) ==
    /\ Validated(po)
    /\ Len(FieldsOf(po.s)[1]) >= 6
    /\ SubSeq(FieldsOf(po.s)[1], 4, 6) = GSV

\* the part count the first line of a GSV report declares, its second field
Declares(po, n) ==
    /\ Len(FieldsOf(po.s)) >= 2
    /\ ParseI32(FieldsOf(po.s)[2]) = Ok(n)

\* the satellite entries of a GSV line: one for each complete group of four fields
\* after the first four, at most four
EntriesOf(fields) ==
    [k \in 1..Min(4, IF Len(fields) < 8 THEN 0 ELSE (Len(fields) - 4) \div 4) |->
        [id |-> ParseI32Ok(fields[4 * k + 1]),
         elevation |-> ParseOk(fields[4 * k + 2]),
         azimuth |-> ParseOk(fields[4 * k + 3]),
         snr |-> ParseOk(fields[4 * k + 4])]]

\* the update ended after reading exactly the declared parts, all valid GSV lines
WholeReport ==
    /\ pc = "returned"
    /\ reads # <<>>
    /\ \A i \in 1..Len(reads) : IsGsvLine(reads[i])
    /\ \E n \in 1..Len(reads) : Declares(reads[1], n) /\ n = Len(reads)

\* -- C5: when the first line of a GSV report declares N parts and the N-1
\* continuation lines arrive as valid GSV sentences, update returns one GSV record
\* whose entries are the lines' entries concatenated in arrival order; and such an
\* update never stops short of the N lines.
C5_GsvConcatenation ==
    /\ WholeReport =>
          /\ result.tag = "GSV"
          /\ result.v = Flatten([i \in 1..Len(reads) |-> EntriesOf(FieldsOf(reads[i].s))])
    /\ pc = "returned" /\ reads # <<>> /\ (\A i \in 1..Len(reads) : IsGsvLine(reads[i]))
          => \A n \in 1..MaxItems : Declares(reads[1], n) => Len(reads) = n

\* a 3-part report with 4 + 4 + 2 entries has been returned with its 10 entries
C5_Witness ==
    /\ WholeReport
    /\ Len(reads) = 3
    /\ [i \in 1..3 |-> Len(EntriesOf(FieldsOf(reads[i].s)))] = <<4, 4, 2>>
    /\ Len(result.v) = 10

\* a continuation read that gave NoConnection or a line that fails validation
FailedRead(po) == po.tag = "NoConnection" \/ (po.tag = "Valid" /\ ~Validated(po))

\* -- C6: in a GSV aggregation, a continuation read that yields NoConnection or a
\* line that fails validation is the last read of the report, and update ends
\* without a fatal fault.
C6_FailedReadAbandons ==
    \A i \in 2..Len(reads) : FailedRead(reads[i]) => i = Len(reads) /\ pc = "returned"

\* -- C7: a GSV record returned for a report whose first line declared N parts holds
\* the entries of all N parts: update read N lines and every one gave its entries.
C7_NoPartialRecord ==
    pc = "returned" /\ result.tag = "GSV" =>
        \A n \in 2..(MaxItems + 2) :
            Declares(reads[1], n) => Len(reads) = n /\ \A i \in 1..n : IsGsvLine(reads[i])

\* the type code of each decoder
CodeOf ==
    [parse_gga |-> S(<<"G","G","A">>), parse_gsa |-> GSA, parse_gsv |-> GSV,
     parse_rmc |-> RMC, parse_vtg |-> VTG, parse_gll |-> GLL]

\* the header token carries the code at its characters 4-6
Carries(header, code) == Len(header) >= 6 /\ SubSeq(header, 4, 6) = code

\* -- C8: every decoder faults on a field sequence whose header token does not
\* carry the decoder's own 3-character type code.
C8_HeaderMismatchFaults ==
    ret.op \in DOMAIN CodeOf /\ ~Carries(arg[1], CodeOf[ret.op]) => ret.out.tag = "Panic"

\* a decoder applied to the fields
Decode(op, args) ==
    CASE op = "parse_gga" -> parse_gga(args)
      [] op = "parse_gsa" -> parse_gsa(args)
      [] op = "parse_gsv" -> parse_gsv(args)
      [] op = "parse_rmc" -> parse_rmc(args)
      [] op = "parse_vtg" -> parse_vtg(args)
      [] op = "parse_gll" -> parse_gll(args)

\* the optional numerals of each decoder: the record's field and the place of the
\* numeral in the field sequence
OptionalNumerals ==
    [parse_gga |-> {<<"hdop", 8>>, <<"msl_alt", 9>>, <<"geoidal_sep", 11>>,
                    <<"age_diff_corr", 13>>},
     parse_gsa |-> {<<"pdop", 15>>, <<"hdop", 16>>, <<"vdop", 17>>},
     parse_gsv |-> {},
     parse_rmc |-> {<<"speed", 7>>, <<"course", 8>>, <<"mag_var", 11>>},
     parse_vtg |-> {<<"true_course", 1>>, <<"magnetic_course", 3>>, <<"speed_knots", 5>>,
                    <<"speed_kph", 7>>},
     parse_gll |-> {}]

\* -- C9: in every decoder an optional numeral that is empty or not a number
\* decodes to absent and causes no fault: where the decoder faults, it faults
\* as well with a number in the numeral's place.
C9_OptionalNumeralsLenient ==
    ret.op \in DOMAIN OptionalNumerals =>
        \A f \in OptionalNumerals[ret.op] :
            Has(arg, f[2]) /\ ParseFloat(Get(arg, f[2])).tag = "Err" =>
                IF ret.out.tag = "Panic"
                THEN Decode(ret.op, [arg EXCEPT ![f[2] + 1] = S(<<"7">>)]).tag = "Panic"
                ELSE ret.out[f[1]] = None

IsCardinal(c) == c \in {S(<<"N">>), S(<<"E">>), S(<<"S">>), S(<<"W">>)}

\* what _parse_degrees gives for the same numeral in the northern hemisphere
Northern == _parse_degrees(arg.degrees, S(<<"N">>))

\* -- C10 as stated: whatever the numeral holds, _parse_degrees gives the value
\* for N and E, the negated value for S and W, and faults for any other letter.
C10_HemisphereDecides ==
    ret.op = "_parse_degrees" =>
        /\ ~IsCardinal(arg.compass_direction) => ret.out.tag = "Panic"
        /\ IsCardinal(arg.compass_direction) => ret.out.tag = "Some"

\* -- C10, amended: an empty numeral gives absent whatever the hemisphere letter;
\* a numeral that is not empty and whose two parts are not both numbers faults
\* whatever the letter; for a numeral whose parts are numbers _parse_degrees gives
\* the value for N and E, the negated value for S and W, and faults for any other
\* letter.
C10_HemisphereOfNumeral ==
    ret.op = "_parse_degrees" =>
        IF arg.degrees = <<>> THEN ret.out = None
        ELSE IF Northern.tag = "Panic" THEN ret.out.tag = "Panic"
        ELSE IF arg.compass_direction \in {S(<<"N">>), S(<<"E">>)} THEN ret.out = Northern
        ELSE IF arg.compass_direction \in {S(<<"S">>), S(<<"W">>)}
             THEN ret.out = Some(Negated(Northern.v))
        ELSE ret.out.tag = "Panic"

\* 1020.12345 in the southern hemisphere has given a value below zero
C10_Witness ==
    /\ ret.op = "_parse_degrees"
    /\ arg.degrees = S(<<"1","0","2","0",".","1","2","3","4","5">>)
    /\ arg.compass_direction = S(<<"S">>)
    /\ ret.out.tag = "Some" /\ ret.out.v.kind = "fin" /\ ret.out.v.neg /\ ret.out.v.m > 0

\* ---- C11: the value of _parse_degrees

\* the bytes of a numeral before its first '.', and those after it
WholeOf(s) == Split(s, Ord("."))[1]
FractionOf(s) == SubSeq(s, Len(WholeOf(s)) + 2, Len(s))

\* ddmm[.m...] or dddmm[.m...]: an integer part of 4 or 5 digits, at most 5
\* digits of fraction
IsCoordinate(s) ==
    /\ Len(WholeOf(s)) \in {4, 5}
    /\ AllDigits(WholeOf(s))
    /\ AllDigits(FractionOf(s)) /\ Len(FractionOf(s)) <= 5

\* the whole degrees the text holds: 2 digits of a 4-digit integer part, 3 of a
\* 5-digit one
WholeDegrees(s) == DigitsValue(SubSeq(s, 1, Len(WholeOf(s)) - 2))

\* the minutes the text holds, in millionths of a minute
MinuteMicros(s) ==
    DigitsValue(SubSeq(WholeOf(s), Len(WholeOf(s)) - 1, Len(WholeOf(s))) \o FractionOf(s))
        * Pow10(6 - Len(FractionOf(s)))

\* q millionths is degrees + minutes / 60 rounded to 6 decimal places
IsRounded(s, q) ==
    LET d == 60 * (q - WholeDegrees(s) * 1000000) - MinuteMicros(s)
    IN  d \in -30..30

\* the millionths next to the exact quotient
NearMicros(s) ==
    LET q == WholeDegrees(s) * 1000000 + (MinuteMicros(s) \div 60)
    IN  (IF q = 0 THEN 0 ELSE q - 1)..(q + 2)

\* the distance of two finite f32 values of one sign, in units of the last place
\* of the lesser
Ulps(a, b) ==
    IF a.m = 0 \/ b.m = 0 THEN (IF a.m = b.m THEN 0 ELSE 1000)
    ELSE IF a.e = b.e THEN (IF a.m >= b.m THEN a.m - b.m ELSE b.m - a.m)
    ELSE IF a.e = b.e + 1 THEN 2 * b.m - a.m
    ELSE IF b.e = a.e + 1 THEN 2 * a.m - b.m
    ELSE 1000

\* what a literal of the source text denotes as f32
Literal(text) == ParseFloat(text).v

Named(text, table, default) ==
    IF \E t \in table : t[1] = text
    THEN (CHOOSE t \in table : t[1] = text)[2]
    ELSE default

FixQualities ==
    {<<S(<<"0">>), "NoFix">>, <<S(<<"1">>), "GpsFix">>, <<S(<<"2">>), "DgpsFix">>}
Modes == {<<S(<<"M">>), "Manual">>, <<S(<<"A">>), "Automatic">>}
Dimensions ==
    {<<S(<<"1">>), "NotAvailable">>, <<S(<<"2">>), "Dimension2d">>,
     <<S(<<"3">>), "Dimension3d">>}

\* -- C12: in a GGA record the fix quality "0", "1", "2" reads NoFix, GpsFix,
\* DgpsFix and anything else NoFix; in a GSA record the mode "M", "A" reads
\* Manual, Automatic and anything else Manual, and the dimension "1", "2", "3"
\* reads NotAvailable, Dimension2d, Dimension3d and anything else NotAvailable.
C12_EnumerationDefaults ==
    /\ (ret.op = "parse_gga" /\ ret.out.tag = "GGA") =>
           ret.out.sat_fix = Named(arg[7], FixQualities, "NoFix")
    /\ (ret.op = "parse_gsa" /\ ret.out.tag = "GSA") =>
           /\ ret.out.mode = Named(arg[2], Modes, "Manual")
           /\ ret.out.dimension_fix = Named(arg[3], Dimensions, "NotAvailable")

\* a GSA sentence whose mode is the letter x has been decoded as Manual, with the
\* dimension 3 read as Dimension3d
C12_Witness ==
    /\ ret.op = "parse_gsa" /\ ret.out.tag = "GSA"
    /\ arg[2] = S(<<"x">>) /\ arg[3] = S(<<"3">>)
    /\ ret.out.mode = "Manual" /\ ret.out.dimension_fix = "Dimension3d"

\* ---- C13: the fields a sentence type always provides

\* an f64 value, as distinct from an optional one
IsF64(v) == "kind" \in DOMAIN v

\* -- C13: every record a decoder returns has its time field and its fix-status
\* field holding a value, parsed or defaulted, never absent: utc and sat_fix of
\* GGA, utc and fix_status of RMC, utc and is_valid of GLL.
C13_TimeAndFixPopulated ==
    /\ (ret.op = "parse_gga" /\ ret.out.tag = "GGA") =>
           IsF64(ret.out.utc) /\ ret.out.sat_fix \in {"NoFix", "GpsFix", "DgpsFix"}
    /\ (ret.op = "parse_rmc" /\ ret.out.tag = "RMC") =>
           IsF64(ret.out.utc) /\ ret.out.fix_status \in BOOLEAN
    /\ (ret.op = "parse_gll" /\ ret.out.tag = "GLL") =>
           /\ ret.out.is_valid \in BOOLEAN
           /\ ret.out.utc # None
           /\ ret.out.utc.tag = "Some" => IsF64(ret.out.utc.v)

\* ---- C14: the fields of an accepted line

RECURSIVE Join(_)
\* the fields with a comma between each two
Join(fields) ==
    IF Len(fields) = 0 THEN <<>>
    ELSE IF Len(fields) = 1 THEN fields[1]
    ELSE fields[1] \o S(<<",">>) \o Join(Tail(fields))

Commas(text) == Cardinality({i \in 1..Len(text) : text[i] = Ord(",")})

\* the text with the letters a..f of its last two bytes in upper case
UpperSum(text) ==
    [i \in 1..Len(text) |->
        IF i > Len(text) - 2 /\ text[i] \in Ord("a")..Ord("f") THEN text[i] - 32 ELSE text[i]]

\* the fields joined with commas, then '*' and the XOR of what follows the first
\* byte as two hex digits
Rejoined(fields) ==
    Join(fields) \o S(<<"*">>) \o Hex(XorAll(Tail(Join(fields))), TRUE)

\* -- C14: for every line parse_sentence accepts, the fields keep the empty
\* tokens (as many fields as the body has commas, and one more, in the order of
\* the line), and the fields joined with commas, followed by '*' and the
\* recomputed XOR as two hex digits, are the trimmed line byte for byte, up to the
\* letter case of the checksum.
C14_RejoinedIsTheLine ==
    (ret.op = "parse_sentence" /\ ret.out.tag = "Some") =>
        /\ Len(ret.out.v) = Commas(Join(ret.out.v)) + 1
        /\ Join(ret.out.v) = SubSeq(trim(ret.line), 1, Len(trim(ret.line)) - 3)
        /\ Rejoined(ret.out.v) = UpperSum(trim(ret.line))

\* ---- C15: the record file

\* -- C15: read_from on a file that records were appended to one by one with
\* append_to returns exactly those records, equal and in the order appended,
\* whatever bytes their encodings hold.
C15_ReadBackWhatWasAppended ==
    (ret.op = "read_from" /\ Len(arg) > 0) => ret.out = Ok(arg)

\* ---- C16: what a Valid line carries

\* -- C16: the text of every Valid line read_line returns is a line with the
\* whitespace at its end trimmed off: it ends neither in the newline marker nor
\* in a carriage return.
C16_ValidLineIsTrimmed ==
    \A i \in 1..Len(reads) :
        reads[i].tag = "Valid" =>
            \/ reads[i].s = <<>>
            \/ reads[i].s[Len(reads[i].s)] \notin {LF, CR, Ord(" ")}

\* ---- C17: the size of a GSV record

\* the most entries a report may hold: four sentences of four
MaxEntries == 16

\* -- C17: every GSV record update returns holds between 0 and 16 entries,
\* whatever number of sentences the first line of the report declares.
C17_AtMostSixteenEntries ==
    result.tag = "GSV" => Len(result.v) <= MaxEntries

\* ---- C18: read_line comes to an end

\* -- C18: provided each read of the port returns and time goes on, a read_line
\* that update has called returns Valid, InvalidBytes or NoConnection; once the
\* second has passed with no newline seen it returns NoConnection and what it
\* had gathered is dropped.
C18_ReadLineReturns ==
    /\ (pc = "read_line") ~> (pc = "returned")
    /\ [][(Reading /\ late) =>
            /\ Len(reads') = Len(reads) + 1 => reads'[Len(reads')] = NoConnection
            /\ output' = <<>>]_<<pc, output, late, reads>>

\* ---- C19: the size of read_line's buffer

\* the buffers read_line has returned with, as text or as bytes
Returned == {i \in 1..Len(reads) : reads[i].tag \in {"Valid", "InvalidBytes"}}

\* -- C19: whatever the port delivers, the buffer of read_line never holds more
\* than 256 bytes, and nothing is added to it after a newline marker or once it
\* holds 256 bytes: while the loop goes on the buffer holds fewer than 256 bytes
\* and no newline marker, and a buffer the loop has left holds its only newline
\* marker, if any, at its end.
C19_BufferBounded ==
    /\ Len(output) <= MaxOutput
    /\ \A j \in 1..Len(output) : output[j] # LF
    /\ \A i \in Returned :
           /\ Len(reads[i].s) <= MaxOutput + 1
           /\ \A j \in 1..(Len(reads[i].s) - 1) : reads[i].s[j] # LF
           /\ reads[i].s[Len(reads[i].s)] = LF \/ Len(reads[i].s) = MaxOutput + 1

\* a stream without a newline has been read up to 256 bytes and returned
C19_Witness ==
    \E i \in Returned :
        /\ Len(reads[i].s) = MaxOutput + 1
        /\ \A j \in 1..Len(reads[i].s) : reads[i].s[j] # LF

\* ---- C20: the read_line calls of one update

\* the number of read_line calls the first line read asks for: the part count it
\* declares when it is a GSV sentence declaring 1 or more, otherwise 1
CallsDue ==
    IF reads # <<>> /\ IsGsvLine(reads[1]) /\ (\E n \in 1..9 : Declares(reads[1], n))
    THEN CHOOSE n \in 1..9 : Declares(reads[1], n)
    ELSE 1

\* -- C20: an update call makes exactly one read_line call, or exactly N when its
\* first line is a GSV sentence declaring N >= 1 parts, and returns exactly one
\* record or sentinel; when it has ended, no line and no entry it read is kept
\* for a later update.
C20_ReadsPerUpdate ==
    pc \in {"returned", "panicked"} =>
        /\ result.tag # "Panic"
        /\ Len(reads) = CallsDue
        /\ output = <<>> /\ gsv = NoGsv

====
